---- MODULE Spec2Model ----
(***************************************************************************)
(* ShopEase catalog service (src/main.py): the four product operations     *)
(* list_products, create_product, list_categories and seed_products, run   *)
(* by concurrent request threads against one shared "product" collection.  *)
(*                                                                         *)
(* Python values are tagged records (None, StrV, IntV, FloatV, BoolV, OidV) so  *)
(* that a field may hold values of different types.  A float is held as an *)
(* exact number of hundredths: 14.99 is FloatV(1499).  A stored document is *)
(* a function from field names to values; a field the document lacks is    *)
(* not in its DOMAIN.  Strings are TLA+ strings; Chars gives a string's    *)
(* characters where the code looks inside it (regex search, sort, len).    *)
(***************************************************************************)
EXTENDS Integers, Sequences, FiniteSets, TLC

VARIABLES
    dbAvail,    \* database.db is not None (fixed when the module is imported)
    docs,       \* the "product" collection, in insertion order
    nextOid,    \* the store's next identifier
    pc,         \* per request thread: where it is inside its handler
    loc,        \* per request thread: the handler's local variables
    resp,       \* the HTTP response the last step produced, with its
                \* request (NoResp when the step produced none)
    seedLen,    \* history: the collection's size when the last seed call began
    creates,    \* history: CreateProduct calls that succeeded
    acked,      \* history: ids returned for bodies without description/in_stock
    faults,     \* history: store calls that raised although the handle exists
    seededOk    \* history: SeedSamples calls that reported seeded = true

vars == <<dbAvail, docs, nextOid, pc, loc, resp, seedLen,
          creates, acked, faults, seededOk>>

(* ------------------------------ bounds -------------------------------- *)

MaxCreates == 1
MaxFaults == 1

Threads == {"t1", "t2"}

(* --------------------------- Python values ---------------------------- *)

None == [t |-> "none"]
StrV(s) == [t |-> "str", s |-> s]
IntV(n) == [t |-> "int", n |-> n]
FloatV(c) == [t |-> "float", c |-> c]
BoolV(b) == [t |-> "bool", b |-> b]
OidV(n) == [t |-> "oid", k |-> n]

EmptyDict == [x \in {} |-> None]

\* dict.get(key, default)
Get(d, key, default) == IF key \in DOMAIN d THEN d[key] ELSE default

\* the truth value of a Python object: `if category:`, bool(x)
Truthy(v) ==
    CASE v.t = "none" -> FALSE
      [] v.t = "str" -> v.s # ""
      [] v.t = "int" -> v.n # 0
      [] v.t = "float" -> v.c # 0
      [] v.t = "bool" -> v.b
      [] v.t = "oid" -> TRUE

\* the printable ASCII characters in code-point order, 32 to 126; the grave
\* accent (96) is spelled out, as it cannot stand in a string here
AsciiChars ==
    << " ", "!", "\"", "#", "$", "%", "&", "'", "(", ")", "*", "+",
       ",", "-", ".", "/", "0", "1", "2", "3", "4", "5", "6", "7",
       "8", "9", ":", ";", "<", "=", ">", "?", "@", "A", "B", "C",
       "D", "E", "F", "G", "H", "I", "J", "K", "L", "M", "N", "O",
       "P", "Q", "R", "S", "T", "U", "V", "W", "X", "Y", "Z", "[",
       "\\", "]", "^", "_", "(grave)", "a", "b", "c", "d", "e", "f", "g",
       "h", "i", "j", "k", "l", "m", "n", "o", "p", "q", "r", "s",
       "t", "u", "v", "w", "x", "y", "z", "{", "|", "}", "~" >>

Chars(s) ==
    CASE s = "Classic White T-Shirt" -> <<"C", "l", "a", "s", "s", "i", "c", " ", "W", "h", "i", "t", "e", " ", "T", "-", "S", "h", "i", "r", "t">>
      [] s = "Soft cotton tee for everyday wear." -> <<"S", "o", "f", "t", " ", "c", "o", "t", "t", "o", "n", " ", "t", "e", "e", " ", "f", "o", "r", " ", "e", "v", "e", "r", "y", "d", "a", "y", " ", "w", "e", "a", "r", ".">>
      [] s = "Clothes" -> <<"C", "l", "o", "t", "h", "e", "s">>
      [] s = "Organic Granola" -> <<"O", "r", "g", "a", "n", "i", "c", " ", "G", "r", "a", "n", "o", "l", "a">>
      [] s = "Crunchy, honey-sweetened breakfast granola." -> <<"C", "r", "u", "n", "c", "h", "y", ",", " ", "h", "o", "n", "e", "y", "-", "s", "w", "e", "e", "t", "e", "n", "e", "d", " ", "b", "r", "e", "a", "k", "f", "a", "s", "t", " ", "g", "r", "a", "n", "o", "l", "a", ".">>
      [] s = "Food" -> <<"F", "o", "o", "d">>
      [] s = "Bluetooth Headphones" -> <<"B", "l", "u", "e", "t", "o", "o", "t", "h", " ", "H", "e", "a", "d", "p", "h", "o", "n", "e", "s">>
      [] s = "Noise-isolating on-ear headphones with 20h battery." -> <<"N", "o", "i", "s", "e", "-", "i", "s", "o", "l", "a", "t", "i", "n", "g", " ", "o", "n", "-", "e", "a", "r", " ", "h", "e", "a", "d", "p", "h", "o", "n", "e", "s", " ", "w", "i", "t", "h", " ", "2", "0", "h", " ", "b", "a", "t", "t", "e", "r", "y", ".">>
      [] s = "Electronics" -> <<"E", "l", "e", "c", "t", "r", "o", "n", "i", "c", "s">>
      [] s = "Stainless Water Bottle" -> <<"S", "t", "a", "i", "n", "l", "e", "s", "s", " ", "W", "a", "t", "e", "r", " ", "B", "o", "t", "t", "l", "e">>
      [] s = "Keeps drinks cold for 24h and hot for 12h." -> <<"K", "e", "e", "p", "s", " ", "d", "r", "i", "n", "k", "s", " ", "c", "o", "l", "d", " ", "f", "o", "r", " ", "2", "4", "h", " ", "a", "n", "d", " ", "h", "o", "t", " ", "f", "o", "r", " ", "1", "2", "h", ".">>
      [] s = "Home" -> <<"H", "o", "m", "e">>
      [] s = "Gourmet Dark Chocolate" -> <<"G", "o", "u", "r", "m", "e", "t", " ", "D", "a", "r", "k", " ", "C", "h", "o", "c", "o", "l", "a", "t", "e">>
      [] s = "70% cacao premium chocolate bar." -> <<"7", "0", "%", " ", "c", "a", "c", "a", "o", " ", "p", "r", "e", "m", "i", "u", "m", " ", "c", "h", "o", "c", "o", "l", "a", "t", "e", " ", "b", "a", "r", ".">>
      [] s = "X" -> <<"X">>
      [] s = "Y" -> <<"Y">>
      [] s = "food" -> <<"f", "o", "o", "d">>
      [] s = "Cacao Nibs" -> <<"C", "a", "c", "a", "o", " ", "N", "i", "b", "s">>
      [] s = "" -> <<>>
      [] s = "cacao" -> <<"c", "a", "c", "a", "o">>
      [] s = "CACAO" -> <<"C", "A", "C", "A", "O">>
      [] s = "c.cao" -> <<"c", ".", "c", "a", "o">>
      [] s = "." -> <<".">>
      [] s = "granola" -> <<"g", "r", "a", "n", "o", "l", "a">>
      [] s = "store unavailable" -> <<"s", "t", "o", "r", "e", " ", "u", "n", "a", "v", "a", "i", "l", "a", "b", "l", "e">>
      [] s = "E11000 duplicate key" -> <<"E", "1", "1", "0", "0", "0", " ", "d", "u", "p", "l", "i", "c", "a", "t", "e", " ", "k", "e", "y">>
      [] s = "connection pool closed: server db-primary-0.internal:27017 refused the write" -> <<"c", "o", "n", "n", "e", "c", "t", "i", "o", "n", " ", "p", "o", "o", "l", " ", "c", "l", "o", "s", "e", "d", ":", " ", "s", "e", "r", "v", "e", "r", " ", "d", "b", "-", "p", "r", "i", "m", "a", "r", "y", "-", "0", ".", "i", "n", "t", "e", "r", "n", "a", "l", ":", "2", "7", "0", "1", "7", " ", "r", "e", "f", "u", "s", "e", "d", " ", "t", "h", "e", " ", "w", "r", "i", "t", "e">>
      [] s = "Internal Server Error" -> <<"I", "n", "t", "e", "r", "n", "a", "l", " ", "S", "e", "r", "v", "e", "r", " ", "E", "r", "r", "o", "r">>
      [] s = "raw" -> <<"r", "a", "w">>

\* ord(c) of the printable ASCII characters
OrdOf ==
    [c \in {AsciiChars[i] : i \in 1..Len(AsciiChars)} |->
        31 + (CHOOSE i \in 1..Len(AsciiChars) : AsciiChars[i] = c)]

Ord(c) == OrdOf[c]

\* str.lower() on one character: what a case-insensitive match compares
LowerOf ==
    [c \in DOMAIN OrdOf |->
        IF OrdOf[c] >= 65 /\ OrdOf[c] <= 90 THEN AsciiChars[OrdOf[c] + 32 - 31]
        ELSE c]

Lower(c) == LowerOf[c]

\* Python's order on str: by code point, a proper prefix first
RECURSIVE SeqLess(_, _)
SeqLess(a, b) ==
    IF a = <<>> THEN b # <<>>
    ELSE IF b = <<>> THEN FALSE
    ELSE IF Ord(Head(a)) # Ord(Head(b)) THEN Ord(Head(a)) < Ord(Head(b))
    ELSE SeqLess(Tail(a), Tail(b))

StrLess(a, b) == SeqLess(Chars(a), Chars(b))

\* the hexadecimal text of an ObjectId
OidHex ==
    << "65f0a1000000000000000001", "65f0a1000000000000000002",
       "65f0a1000000000000000003", "65f0a1000000000000000004",
       "65f0a1000000000000000005", "65f0a1000000000000000006",
       "65f0a1000000000000000007", "65f0a1000000000000000008",
       "65f0a1000000000000000009", "65f0a100000000000000000a",
       "65f0a100000000000000000b", "65f0a100000000000000000c",
       "65f0a100000000000000000d", "65f0a100000000000000000e",
       "65f0a100000000000000000f", "65f0a1000000000000000010",
       "65f0a1000000000000000011", "65f0a1000000000000000012",
       "65f0a1000000000000000013", "65f0a1000000000000000014" >>

\* str(x) of the values the handlers stringify
PyStr(v) ==
    CASE v.t = "oid" -> OidHex[v.k]
      [] v.t = "none" -> "None"
      [] v.t = "str" -> v.s

(* ------------------------- results of a call -------------------------- *)

Returned(v) == [raised |-> FALSE, value |-> v]
Raised(msg) == [raised |-> TRUE, msg |-> msg]

\* HTTPException(status_code=500, detail=...), and the framework's answer to
\* an exception no handler catches
Http500(op, req, detail) == [op |-> op, status |-> 500, req |-> req, detail |-> detail]

NoResp == [op |-> "none"]

(* ------------------------- data and inputs ---------------------------- *)

\* the samples of seed_products
Sample(title, description, price, category) ==
    [ title |-> StrV(title), description |-> StrV(description),
      price |-> FloatV(price), category |-> StrV(category),
      in_stock |-> BoolV(TRUE) ]

Samples ==
    << Sample("Classic White T-Shirt", "Soft cotton tee for everyday wear.",
              1499, "Clothes"),
       Sample("Organic Granola", "Crunchy, honey-sweetened breakfast granola.",
              749, "Food"),
       Sample("Bluetooth Headphones",
              "Noise-isolating on-ear headphones with 20h battery.",
              5999, "Electronics"),
       Sample("Stainless Water Bottle",
              "Keeps drinks cold for 24h and hot for 12h.", 1999, "Home"),
       Sample("Gourmet Dark Chocolate", "70% cacao premium chocolate bar.",
              399, "Food") >>

\* request bodies of POST /api/products
ProductInputs ==
    { [ title |-> StrV("X"), price |-> FloatV(999), category |-> StrV("Y") ],
      [ title |-> StrV("Cacao Nibs"), description |-> StrV("raw"),
        price |-> FloatV(499), category |-> StrV("food"),
        in_stock |-> BoolV(FALSE) ] }

\* (category, q) of GET /api/products; None is an omitted parameter
PlainQueries == { <<None, None>>, <<StrV("Food"), StrV("cacao")>> }

Queries ==
    { <<None, None>>,
      <<StrV("Food"), StrV("cacao")>>,
      <<None, StrV("CACAO")>>,
      <<None, StrV("c.cao")>>,
      <<StrV(""), None>> }

\* documents of any shape, as the store accepts them from other writers
OptField(name, values) == {EmptyDict} \cup {(name :> v) : v \in values}

RawDocs ==
    { ("_id" :> OidV(1)) @@ a @@ b @@ c @@ e @@ f :
        a \in OptField("title", {StrV("X")}),
        b \in OptField("description", {None, StrV("raw")}),
        c \in OptField("price", {IntV(0), IntV(5), FloatV(1499), None}),
        e \in OptField("category", {StrV("Y")}),
        f \in OptField("in_stock", {BoolV(TRUE), BoolV(FALSE), IntV(0),
                                    IntV(2), None, StrV("")}) }

(* ----------------------- the document store --------------------------- *)

\* Error texts a store call may raise with while the handle exists.
StoreErrors ==
    { "E11000 duplicate key",
      "connection pool closed: server db-primary-0.internal:27017 refused the write" }

\* What one store call may do besides succeeding: None is "no error".
FaultChoices ==
    {None} \cup (IF dbAvail /\ faults < MaxFaults
                 THEN {StrV(e) : e \in StoreErrors} ELSE {})

\* $regex with $options "i": the pattern is searched anywhere in the text;
\* "." stands for any character, every other character of the patterns used
\* here for itself, letters without regard to case.
RegexMatchAt(pattern, text, off) ==
    \A i \in 1..Len(pattern) :
        \/ pattern[i] = "."
        \/ Lower(pattern[i]) = Lower(text[off + i])

RegexSearch(pattern, text) ==
    \E off \in 0..(Len(text) - Len(pattern)) : RegexMatchAt(pattern, text, off)

\* one {field: {"$regex": q, "$options": "i"}} condition on a document
MatchesRegex(d, field, cond) ==
    /\ field \in DOMAIN d
    /\ d[field].t = "str"
    /\ RegexSearch(Chars(cond.regex), Chars(d[field].s))

\* a document against the filter list_products builds
Matches(d, filter) ==
    /\ "category" \in DOMAIN filter =>
           "category" \in DOMAIN d /\ d["category"] = filter["category"]
    /\ "$or" \in DOMAIN filter =>
           \E i \in 1..Len(filter["$or"]) :
               LET c == filter["$or"][i]
                   f == CHOOSE k \in DOMAIN c : TRUE
               IN MatchesRegex(d, f, c[f])

\* database.get_documents("product", filter_dict)
get_documents(filter, fault) ==
    IF ~dbAvail THEN Returned(<<>>)
    ELSE IF fault # None THEN Raised(fault.s)
    ELSE Returned(SelectSeq(docs, LAMBDA d : Matches(d, filter)))

\* database.create_document("product", data): the value it gives back
create_document(data, fault) ==
    IF ~dbAvail THEN Raised("store unavailable")
    ELSE IF fault # None THEN Raised(fault.s)
    ELSE Returned(PyStr(OidV(nextOid)))

\* ... and the collection after it
Inserted(data, fault) ==
    IF dbAvail /\ fault = None
    THEN Append(docs, ("_id" :> OidV(nextOid)) @@ data)
    ELSE docs

\* schemas.Product as stored: in_stock defaults to True, description is optional
Product(input) ==
    IF "in_stock" \in DOMAIN input THEN input
    ELSE input @@ ("in_stock" :> BoolV(TRUE))

\* collection.distinct(field): the distinct values, first occurrence first
RECURSIVE DistinctOf(_, _)
DistinctOf(ds, field) ==
    IF ds = <<>> THEN <<>>
    ELSE LET rest == DistinctOf(SubSeq(ds, 1, Len(ds) - 1), field)
             d == ds[Len(ds)]
         IN IF field \notin DOMAIN d THEN rest
            ELSE IF \E i \in 1..Len(rest) : rest[i] = d[field].s THEN rest
            ELSE Append(rest, d[field].s)

(* --------------------------- list_products ---------------------------- *)

FilterDict(category, q) ==
    (IF Truthy(category) THEN ("category" :> category) ELSE EmptyDict)
    @@ (IF Truthy(q)
        THEN ("$or" :> << ("title" :> [regex |-> q.s, options |-> "i"]),
                          ("description" :> [regex |-> q.s, options |-> "i"]) >>)
        ELSE EmptyDict)

\* float(x)
CanFloat(v) == v.t \in {"int", "float", "bool"}
PyFloat(v) ==
    CASE v.t = "int" -> FloatV(100 * v.n)
      [] v.t = "float" -> v
      [] v.t = "bool" -> FloatV(IF v.b THEN 100 ELSE 0)

ProductOutWrongIdKey(d) ==
    [ id |-> PyStr(Get(d, "id", None)),
      title |-> Get(d, "title", None),
      description |-> Get(d, "description", None),
      price |-> PyFloat(Get(d, "price", IntV(0))),
      category |-> Get(d, "category", None),
      in_stock |-> BoolV(Truthy(Get(d, "in_stock", BoolV(TRUE)))) ]

\* the ProductOut(...) call of the loop: every field is set, description too
ProductOut(d) ==
    [ id |-> PyStr(Get(d, "_id", None)),
      title |-> Get(d, "title", None),
      description |-> Get(d, "description", None),
      price |-> PyFloat(Get(d, "price", IntV(0))),
      category |-> Get(d, "category", None),
      in_stock |-> BoolV(Truthy(Get(d, "in_stock", BoolV(TRUE)))) ]

\* whether building ProductOut from d raises: float() of a non-number, or a
\* field the model declares str holding None
ProductOutRaises(d) ==
    \/ ~CanFloat(Get(d, "price", IntV(0)))
    \/ Get(d, "title", None).t # "str"
    \/ Get(d, "category", None).t # "str"
    \/ Get(d, "description", None).t \notin {"str", "none"}

list_products(category, q, fault) ==
    LET req == <<category, q>>
        r == get_documents(FilterDict(category, q), fault)
    IN IF r.raised THEN Http500("list", req, "Internal Server Error")
       ELSE IF \E i \in 1..Len(r.value) : ProductOutRaises(r.value[i])
       THEN Http500("list", req, "Internal Server Error")
       ELSE [ op |-> "list", status |-> 200, req |-> req,
              items |-> [i \in 1..Len(r.value) |-> ProductOut(r.value[i])] ]

(* --------------------------- create_product --------------------------- *)

CreateResponseSwallow(input, r) ==
    [ op |-> "create", status |-> 201, req |-> input,
      id |-> IF r.raised THEN "None" ELSE r.value ]

\* return {"id": inserted_id}, or HTTPException(500, detail=str(e))
CreateResponse(input, r) ==
    IF r.raised THEN Http500("create", input, r.msg)
    ELSE [ op |-> "create", status |-> 201, req |-> input, id |-> r.value ]

create_product(input, fault) ==
    CreateResponse(input, create_document(Product(input), fault))

(* -------------------------- list_categories --------------------------- *)

\* list.sort() on a list of str: insertion into the sorted prefix
RECURSIVE InsertSorted(_, _)
InsertSorted(x, s) ==
    IF s = <<>> THEN <<x>>
    ELSE IF StrLess(x, Head(s)) THEN <<x>> \o s
    ELSE <<Head(s)>> \o InsertSorted(x, Tail(s))

RECURSIVE SortStrs(_)
SortStrs(s) ==
    IF s = <<>> THEN <<>>
    ELSE InsertSorted(s[Len(s)], SortStrs(SubSeq(s, 1, Len(s) - 1)))

SortSkipped(cs) == cs

\* categories.sort()
Sorted(cs) == SortStrs(cs)

CategoriesSourceNoGuard(fault) ==
    IF ~dbAvail THEN Raised("'NoneType' object is not subscriptable")
    ELSE IF fault # None THEN Raised(fault.s)
    ELSE Returned(DistinctOf(docs, "category"))

\* db["product"].distinct("category") if db is not None else []
CategoriesSource(fault) ==
    IF ~dbAvail THEN Returned(<<>>)
    ELSE IF fault # None THEN Raised(fault.s)
    ELSE Returned(DistinctOf(docs, "category"))

list_categories(fault) ==
    LET r == CategoriesSource(fault)
    IN IF r.raised THEN Http500("categories", <<>>, r.msg)
       ELSE [ op |-> "categories", status |-> 200, req |-> <<>>,
              cats |-> Sorted(r.value) ]

(* --------------------------- seed_products ---------------------------- *)

\* db["product"].count_documents({}) if db is not None else 0
CountDocuments(fault) ==
    IF ~dbAvail THEN Returned(0)
    ELSE IF fault # None THEN Raised(fault.s)
    ELSE Returned(Len(docs))

AlreadySeededOffByOne(count) == count >= 0

\* if count > 0
AlreadySeeded(count) == count > 0

SeedSkipped(count) ==
    [ op |-> "seed", status |-> 200, req |-> <<>>, seeded |-> FALSE,
      existing |-> count ]

SeedDone ==
    [ op |-> "seed", status |-> 200, req |-> <<>>, seeded |-> TRUE,
      count |-> Len(Samples) ]

(* ------------------------------ actions ------------------------------- *)

Idle == [i |-> 0]

Respond(r) == resp' = r

Count(fault) == IF fault = None THEN faults ELSE faults + 1

\* GET /api/products
List(t, category, q, fault) ==
    /\ pc[t] = "idle"
    /\ faults' = Count(fault)
    /\ UNCHANGED <<dbAvail, docs, nextOid, pc, loc, seedLen, creates, acked,
                   seededOk>>
    /\ Respond(list_products(category, q, fault))

\* POST /api/products
Create(t, input, fault) ==
    /\ pc[t] = "idle"
    /\ creates < MaxCreates
    /\ faults' = Count(fault)
    /\ docs' = Inserted(Product(input), fault)
    /\ nextOid' = Len(docs') - Len(docs) + nextOid
    /\ creates' = Len(docs') - Len(docs) + creates
    /\ LET r == create_product(input, fault)
       IN /\ Respond(r)
          /\ acked' = IF r.status = 201 /\ "in_stock" \notin DOMAIN input
                         /\ "description" \notin DOMAIN input
                      THEN acked \cup {r.id} ELSE acked
    /\ UNCHANGED <<dbAvail, pc, loc, seedLen, seededOk>>

\* GET /api/categories
ListCategories(t, fault) ==
    /\ pc[t] = "idle"
    /\ faults' = Count(fault)
    /\ UNCHANGED <<dbAvail, docs, nextOid, pc, loc, seedLen, creates, acked,
                   seededOk>>
    /\ Respond(list_categories(fault))

\* POST /api/seed, up to the count check
SeedCount(t, fault) ==
    /\ pc[t] = "idle"
    /\ seedLen' = Len(docs)
    /\ faults' = Count(fault)
    /\ UNCHANGED <<dbAvail, docs, nextOid, creates, acked, seededOk>>
    /\ LET r == CountDocuments(fault)
       IN IF r.raised
          THEN /\ Respond(Http500("seed", <<>>, r.msg))
               /\ UNCHANGED <<pc, loc>>
          ELSE IF AlreadySeeded(r.value)
          THEN /\ Respond(SeedSkipped(r.value))
               /\ UNCHANGED <<pc, loc>>
          ELSE /\ pc' = [pc EXCEPT ![t] = "seeding"]
               /\ loc' = [loc EXCEPT ![t] = [i |-> 1]]
               /\ Respond(NoResp)

\* POST /api/seed, one turn of the loop over samples (and the return after
\* the last one)
SeedInsert(t, fault) ==
    /\ pc[t] = "seeding"
    /\ faults' = Count(fault)
    /\ LET s == Samples[loc[t].i]
           r == create_document(s, fault)
       IN /\ docs' = Inserted(s, fault)
          /\ nextOid' = Len(docs') - Len(docs) + nextOid
          /\ IF r.raised
             THEN /\ Respond(Http500("seed", <<>>, r.msg))
                  /\ pc' = [pc EXCEPT ![t] = "idle"]
                  /\ loc' = [loc EXCEPT ![t] = Idle]
                  /\ UNCHANGED seededOk
             ELSE IF loc[t].i = Len(Samples)
             THEN /\ Respond(SeedDone)
                  /\ pc' = [pc EXCEPT ![t] = "idle"]
                  /\ loc' = [loc EXCEPT ![t] = Idle]
                  /\ seededOk' = seededOk + 1
             ELSE /\ loc' = [loc EXCEPT ![t] = [i |-> loc[t].i + 1]]
                  /\ Respond(NoResp)
                  /\ UNCHANGED <<pc, seededOk>>
    /\ UNCHANGED <<dbAvail, seedLen, creates, acked>>

Step(t, queries) ==
    \/ \E qr \in queries, f \in FaultChoices : List(t, qr[1], qr[2], f)
    \/ \E p \in ProductInputs, f \in FaultChoices : Create(t, p, f)
    \/ \E f \in FaultChoices : ListCategories(t, f)
    \/ \E f \in FaultChoices : SeedCount(t, f)
    \/ \E f \in FaultChoices : SeedInsert(t, f)

Quiet ==
    /\ pc = [t \in Threads |-> "idle"]
    /\ loc = [t \in Threads |-> Idle]
    /\ resp = NoResp
    /\ seedLen = 0
    /\ creates = 0
    /\ acked = {}
    /\ faults = 0
    /\ seededOk = 0

\* the service after start-up, its collection empty
Init ==
    /\ dbAvail \in BOOLEAN
    /\ docs = <<>>
    /\ nextOid = 1
    /\ Quiet

\* requests served by concurrent threads
Next == \E t \in Threads : Step(t, PlainQueries)

Spec == Init /\ [][Next]_vars

\* one client, each call completing before the next starts
NextSeq == Step("t1", Queries)

SeqSpec == Init /\ [][NextSeq]_vars

\* reads of a collection that holds a document of any shape
ReadInit ==
    /\ dbAvail = TRUE
    /\ docs \in {<<d>> : d \in RawDocs}
    /\ nextOid = 2
    /\ Quiet

ReadNext ==
    \E t \in Threads, qr \in Queries, f \in FaultChoices :
        List(t, qr[1], qr[2], f)

ReadSpec == ReadInit /\ [][ReadNext]_vars

(* ------------------------- reading the state -------------------------- *)

\* a stored document without its identifier
Body(d) == [f \in DOMAIN d \ {"_id"} |-> d[f]]

IsSample(d) == \E i \in 1..Len(Samples) : Body(d) = Samples[i]

SampleDocCount == Cardinality({i \in 1..Len(docs) : IsSample(docs[i])})

\* sub occurs in text as a literal substring, letters without regard to case
Contains(sub, text) ==
    \E off \in 0..(Len(text) - Len(sub)) :
        \A i \in 1..Len(sub) : Lower(sub[i]) = Lower(text[off + i])

\* a query parameter that was sent, and not sent empty
Given(v) == v # None /\ v.s # ""

\* the documents List is to return for (category, q), as the claim words it
Wanted(d, category, q) ==
    /\ Given(category) =>
           "category" \in DOMAIN d /\ d["category"] = category
    /\ Given(q) =>
           \E f \in {"title", "description"} :
               /\ f \in DOMAIN d
               /\ d[f].t = "str"
               /\ Contains(Chars(q.s), Chars(d[f].s))

ItemIds(r) == {r.items[k].id : k \in 1..Len(r.items)}

DocWithId(id) == docs[CHOOSE i \in 1..Len(docs) : PyStr(docs[i]["_id"]) = id]

(* ------------------------------ claims -------------------------------- *)

\* C1: from an empty, available store, however SeedSamples calls interleave,
\* at most one of them is the effective seed: at most one reports
\* seeded = true and the collection never holds more than the five samples.
C1_SeedNeverDuplicates ==
    (dbAvail /\ faults = 0) =>
        /\ seededOk <= 1
        /\ SampleDocCount <= Len(Samples)

\* C2: sequential SeedSamples calls on an available store whose calls all
\* succeed: a call that finds the collection empty inserts the five samples
\* and reports seeded = true, count = 5, and it is the only one to do so;
\* a call that finds documents inserts nothing and reports seeded = false
\* with existing equal to the document count, which is 5 when the seed is
\* the only write so far.
C2_SequentialSeed ==
    (dbAvail /\ faults = 0 /\ resp.op = "seed") =>
        /\ resp.status = 200
        /\ seededOk <= 1
        /\ IF seedLen = 0
           THEN /\ resp.seeded /\ resp.count = 5
                /\ seededOk = 1
                /\ Len(docs) = 5
                /\ \A i \in 1..5 : Body(docs[i]) = Samples[i]
           ELSE /\ ~resp.seeded
                /\ resp.existing = Len(docs)
                /\ Len(docs) = seedLen
                /\ (seededOk = 1 /\ creates = 0) => resp.existing = 5

C2_SecondCallSkips ==
    /\ dbAvail /\ faults = 0 /\ seededOk = 1 /\ creates = 0
    /\ resp.op = "seed" /\ resp.status = 200 /\ ~resp.seeded
    /\ resp.existing = 5

\* C3: List(category, q) returns exactly the documents whose category equals
\* category (when given) and whose title or description contains q as a
\* case-insensitive substring (when given).
C3_ListMatchesExactly ==
    (resp.op = "list" /\ resp.status = 200 /\ dbAvail) =>
        ItemIds(resp) =
            { PyStr(docs[i]["_id"]) :
                i \in {j \in 1..Len(docs) :
                          Wanted(docs[j], resp.req[1], resp.req[2])} }

\* C4: with the store handle unavailable no write succeeds: CreateProduct
\* and SeedSamples answer with a server error, never with an id or
\* seeded = true, and nothing is stored.
C4_WritesFailWhenUnavailable ==
    ~dbAvail =>
        /\ resp.op \in {"create", "seed"} => resp.status = 500
        /\ docs = <<>>
        /\ creates = 0 /\ acked = {} /\ seededOk = 0

C4_SeedFailedUnavailable ==
    ~dbAvail /\ resp.op = "seed" /\ resp.status = 500

\* C5: with the store handle unavailable the reads degrade: List, for every
\* (category, q), and ListCategories answer 200 with an empty sequence.
C5_ReadsDegradeWhenUnavailable ==
    ~dbAvail =>
        /\ resp.op = "list" => resp.status = 200 /\ resp.items = <<>>
        /\ resp.op = "categories" => resp.status = 200 /\ resp.cats = <<>>

C5_CategoriesEmptyUnavailable ==
    ~dbAvail /\ resp.op = "categories" /\ resp.status = 200 /\ resp.cats = <<>>

C6_Sorted ==
    (resp.op = "categories" /\ resp.status = 200) =>
        /\ \A i, j \in 1..Len(resp.cats) :
               i < j => StrLess(resp.cats[i], resp.cats[j])
        /\ {resp.cats[i] : i \in 1..Len(resp.cats)} =
               { docs[i]["category"].s :
                   i \in {j \in 1..Len(docs) : "category" \in DOMAIN docs[j]} }

C6_Again ==
    (resp'.op = "categories" /\ resp'.status = 200) =>
        /\ docs' = docs
        /\ (resp.op = "categories" /\ resp.status = 200) =>
               resp'.cats = resp.cats

\* C6: a successful ListCategories returns the distinct categories of the
\* collection, each once, in ascending order (C6_Sorted); it leaves the
\* collection as it was, and called again with no write in between it
\* returns the same sequence (C6_Again).
C6_CategoriesSortedDistinctIdempotent == []C6_Sorted /\ [][C6_Again]_vars

C6_ManyCategories ==
    /\ resp.op = "categories" /\ resp.status = 200
    /\ creates >= 1 /\ seededOk >= 1
    /\ Len(resp.cats) >= 5
    /\ Len(docs) > Len(resp.cats)

\* C7: every id CreateProduct returned for a body without description and
\* in_stock names one stored document, whose in_stock is true, and every
\* successful unfiltered List from then on holds a record with that id and
\* in_stock = true.
C7_CreatedThenListed ==
    \A id \in acked :
        /\ Cardinality({i \in 1..Len(docs) : PyStr(docs[i]["_id"]) = id}) = 1
        /\ DocWithId(id)["in_stock"] = BoolV(TRUE)
        /\ (resp.op = "list" /\ resp.status = 200 /\ resp.req = <<None, None>>) =>
               \E k \in 1..Len(resp.items) :
                   /\ resp.items[k].id = id
                   /\ resp.items[k].in_stock = BoolV(TRUE)

C7_ListedAfterCreate ==
    /\ acked # {}
    /\ resp.op = "list" /\ resp.status = 200 /\ resp.req = <<None, None>>
    /\ Len(resp.items) > Len(Samples)

\* what is said of the fields other than description
C8_OtherFields(d, r) ==
    /\ r.id = PyStr(d["_id"])
    /\ r.title = d["title"]
    /\ r.category = d["category"]
    /\ "description" \in DOMAIN d => r.description = d["description"]
    /\ "price" \notin DOMAIN d => r.price = FloatV(0)
    /\ ("price" \in DOMAIN d /\ d["price"].t = "float") => r.price = d["price"]
    /\ ("price" \in DOMAIN d /\ d["price"].t = "int") =>
           r.price = FloatV(100 * d["price"].n)
    /\ "in_stock" \notin DOMAIN d => r.in_stock = BoolV(TRUE)
    /\ ("in_stock" \in DOMAIN d /\ d["in_stock"].t = "bool") =>
           r.in_stock = d["in_stock"]
    /\ ("in_stock" \in DOMAIN d /\ d["in_stock"].t = "int") =>
           r.in_stock = BoolV(d["in_stock"].n # 0)

\* C8: in every record List returns, a missing price reads 0, a missing
\* in_stock reads true, a document lacking description yields a record with
\* the description field omitted (not present with an empty or null value),
\* and the fields present are passed through, price as a float and in_stock
\* as a bool.
C8_DescriptionOmitted ==
    (resp.op = "list" /\ resp.status = 200) =>
        \A k \in 1..Len(resp.items) :
            LET r == resp.items[k]
                d == DocWithId(r.id)
            IN /\ C8_OtherFields(d, r)
               /\ "description" \notin DOMAIN d => "description" \notin DOMAIN r

\* C9: the message of a server error from CreateProduct, ListCategories or
\* SeedSamples is a truncation of the store's error text, at most 50
\* characters long.
C9_ErrorDetailBounded ==
    (resp.op \in {"create", "categories", "seed"} /\ resp.status = 500) =>
        Len(Chars(resp.detail)) <= 50

\* C10: a SeedSamples call that ends in a server error leaves the collection
\* as it was when the call began, so that no later call reports
\* seeded = false over fewer than the five samples.
C10_SeedAllOrNothing ==
    /\ (resp.op = "seed" /\ resp.status = 500) => Len(docs) = seedLen
    /\ (resp.op = "seed" /\ resp.status = 200 /\ creates = 0) =>
           (resp.seeded \/ resp.existing >= Len(Samples))

====
